---- MODULE Spec2Model ----
(***************************************************************************)
(* A model of src/src/context.ts: the class Context<TContext>, a wrapper   *)
(* that owns a value (_context) and an array of staged plugin arguments    *)
(* (_use), and invokes plugins against them.                               *)
(*                                                                         *)
(* JavaScript values are pairs <<type, n>>.  Arrays live in a heap         *)
(* (arrays), so that two holders of one array see each other's writes; a   *)
(* wrapper's _use is a location of that heap.  Every method is one atomic  *)
(* step: the language is single-threaded and the methods are synchronous.  *)
(***************************************************************************)
EXTENDS Integers, Sequences, FiniteSets, TLC

VARIABLES
  wrappers,  \* the Context instances built so far; an instance is its index
  arrays,    \* the heap of arrays: location -> sequence of values
  obj,       \* the fields of the one plain object a caller may wrap
  held,      \* the array the caller keeps in a variable of its own (0: none)
  spent,     \* per instance: a consuming call returned and nothing was staged since
  last       \* what the last call was, what it was given and how it ended

vars == <<wrappers, arrays, obj, held, spent, last>>

-----------------------------------------------------------------------------
(* Bounds *)

MaxWrappers == 2   \* instances the caller keeps at once
MaxLen == 2        \* longest staged sequence
MaxPlugins == 3    \* longest batch given to tasks
MaxChain == 3      \* instances of a chain of map calls

-----------------------------------------------------------------------------
(* Values *)

Num(n) == <<"number", n>>
Bool(b) == <<"boolean", IF b THEN 1 ELSE 0>>
Undefined == <<"undefined", 0>>
NaN == <<"NaN", 0>>
ObjRef == <<"object", 1>>
ArrRef(l) == <<"array", l>>
Self(w) == <<"Context", w>>
ErrorE == <<"Error", 1>>
TypeError == <<"TypeError", 1>>
\* a string, as + makes one of an object or an array and a number
Text == <<"string", 1>>
\* the string of the decimal digits of the number n
Digits(n) == <<"digits", n>>
\* the array a rest parameter collects the arguments into
List(items) == <<"list", items>>

Returned(v) == [kind |-> "return", value |-> v]
Thrown(e) == [kind |-> "throw", value |-> e]

RECURSIVE SeqsUpTo(_, _)
SeqsUpTo(S, n) ==
  IF n = 0 THEN {<<>>}
  ELSE LET shorter == SeqsUpTo(S, n - 1)
       IN shorter \cup {Append(s, x) : s \in shorter, x \in S}

-----------------------------------------------------------------------------
(* The machine: the part of the state a method reads and writes, threaded  *)
(* through the statements of the method.                                   *)

Cur ==
  [wrappers |-> wrappers, arrays |-> arrays, obj |-> obj, held |-> held,
   calls |-> <<>>, done |-> Returned(Undefined)]

Staged(M, w) == M.arrays[M.wrappers[w]._use]

\* the arrays somebody refers to, the _use field of instance w aside
ReferencedBut(M, w) ==
  {M.wrappers[i]._use : i \in (1..Len(M.wrappers)) \ {w}}
    \cup {M.wrappers[i]._context[2] :
            i \in {j \in 1..Len(M.wrappers) : M.wrappers[j]._context[1] = "array"}}
    \cup (IF M.held = 0 THEN {} ELSE {M.held})

Referenced(M) == ReferencedBut(M, 0)

\* where the array literal assigned to the _use field of w is put: a place
\* no other holder refers to (the array w drops with the assignment is gone
\* unless somebody else holds it)
FreshLoc(M, w) ==
  CHOOSE l \in 1..(Len(M.arrays) + 1) :
    /\ l \notin ReferencedBut(M, w)
    /\ \A k \in 1..(l - 1) : k \in ReferencedBut(M, w)

\* an array literal: a new array, distinct from every array in use
NewArray(M, l, content) ==
  [M EXCEPT !.arrays = IF l <= Len(M.arrays)
                       THEN [M.arrays EXCEPT ![l] = content]
                       ELSE Append(M.arrays, content)]

\* an array nobody refers to any more is gone
Collect(M) ==
  LET refd == Referenced(M)
      n == IF refd = {} THEN 0 ELSE CHOOSE m \in refd : \A k \in refd : k <= m
  IN [M EXCEPT !.arrays =
        [l \in 1..n |-> IF l \in refd THEN M.arrays[l] ELSE <<>>]]

-----------------------------------------------------------------------------
(* Plugins.  A plugin is named by a string; NotAFunction is a value that   *)
(* is no function at all.                                                  *)

NotAFunction == "notAFunction"

\* ToInt32 of the operands of | & ^
ToInt32(v) == IF v[1] \in {"number", "boolean"} THEN v[2] ELSE 0

\* a property read: a plain object has its fields, a primitive has none
Field(M, thisArg, f) == IF thisArg = ObjRef THEN M.obj[f] ELSE Undefined

\* a property write: onto a primitive receiver it is lost
SetField(M, thisArg, f, v) ==
  IF thisArg = ObjRef THEN [M EXCEPT !.obj[f] = v] ELSE M

BitOr(x, y) == IF x = 1 \/ y = 1 THEN 1 ELSE 0
BitAnd(x, y) == IF x = 1 /\ y = 1 THEN 1 ELSE 0
BitXor(x, y) == IF x = y THEN 0 ELSE 1

\* this + 1
PlusOne(v) ==
  CASE v[1] \in {"number", "boolean"} -> Num(v[2] + 1)
    [] v[1] \in {"undefined", "NaN"} -> NaN
    [] OTHER -> Text

\* reduce((previousValue, currentValue) => previousValue + currentValue, 0)
\* over an array of numbers
RECURSIVE reduce(_)
reduce(items) ==
  IF items = <<>> THEN 0 ELSE reduce(SubSeq(items, 1, Len(items) - 1)) + items[Len(items)][2]

\* the i-th parameter of a function called with args
Param(args, i) == IF i <= Len(args) THEN args[i] ELSE Undefined

\* ToNumber of an operand of -: an array goes by its string, which is empty
\* for [] and [undefined] and that of the item for an array of one item
RECURSIVE ToNumber(_)
ToNumber(v) ==
  CASE v[1] \in {"number", "boolean"} -> Num(v[2])
    [] v[1] = "list" ->
         IF v[2] = <<>> \/ v[2] = <<Undefined>> THEN Num(0)
         ELSE IF Len(v[2]) = 1 THEN ToNumber(v[2][1]) ELSE NaN
    [] OTHER -> NaN

\* a - b
Minus(a, b) ==
  IF ToNumber(a) = NaN \/ ToNumber(b) = NaN THEN NaN
  ELSE Num(ToNumber(a)[2] - ToNumber(b)[2])

\* the plugins that call back into the instance they close over
RECURSIVE Reentrant(_, _, _, _)

\* the body of plugin p run with receiver thisArg and arguments args
Body(M, p, thisArg, args) ==
  LET a == ToInt32(Field(M, thisArg, "a"))
      b == ToInt32(Field(M, thisArg, "b"))
  IN CASE p = "testIt" -> [M EXCEPT !.done = Returned(Undefined)]
       [] p = "increment" -> [M EXCEPT !.done = Returned(PlusOne(thisArg))]
       [] p = "sum" ->
            [M EXCEPT !.done = IF thisArg[1] = "array"
                               THEN Returned(Num(reduce(M.arrays[thisArg[2]])))
                               ELSE Thrown(TypeError)]
       [] p = "or" ->
            [SetField(M, thisArg, "or", Num(BitOr(a, b)))
               EXCEPT !.done = Returned(Undefined)]
       [] p = "and" ->
            [SetField(M, thisArg, "and", Num(BitAnd(a, b)))
               EXCEPT !.done = Returned(Undefined)]
       [] p = "xor" ->
            [SetField(M, thisArg, "xor", Num(BitXor(a, b)))
               EXCEPT !.done = Returned(Undefined)]
       [] p = "sub" ->
            [M EXCEPT !.done = Returned(Minus(Param(args, 1), Param(args, 2)))]
       [] p = "stringify" ->
            [M EXCEPT !.done = Returned(IF thisArg[1] = "number"
                                        THEN Digits(thisArg[2]) ELSE Text)]
       [] p = "raise" -> [M EXCEPT !.done = Thrown(ErrorE)]
       [] OTHER -> Reentrant(M, p, thisArg, args)

\* what the call log keeps of one invocation: the plugin, its receiver, the
\* fields the receiver had when the plugin was entered, its arguments and how
\* it ended
Invocation(M, p, thisArg, args, done) ==
  [plugin |-> p, this |-> thisArg,
   fields |-> [f \in {"or", "and", "xor"} |-> Field(M, thisArg, f)],
   args |-> args, done |-> done]

\* the functions pluginize(plugin)(...fixed) has returned: a function is
\* known by its name and keeps the plugin and the arguments it was made with
Closures ==
  [q \in {"sub(9, 8)", "sub(9)", "increment()", "testIt(9)", "raise(9)"} |->
     CASE q = "sub(9, 8)" -> [plugin |-> "sub", fixed |-> <<Num(9), Num(8)>>]
       [] q = "sub(9)" -> [plugin |-> "sub", fixed |-> <<Num(9)>>]
       [] q = "increment()" -> [plugin |-> "increment", fixed |-> <<>>]
       [] q = "testIt(9)" -> [plugin |-> "testIt", fixed |-> <<Num(9)>>]
       [] q = "raise(9)" -> [plugin |-> "raise", fixed |-> <<Num(9)>>]]

\* pluginize(plugin)(...fixed)
pluginize(plugin, fixed) ==
  CHOOSE q \in DOMAIN Closures : Closures[q] = [plugin |-> plugin, fixed |-> fixed]

\* the functions lsh(func) and rsh(plugin) have returned: a function is known
\* by its name and keeps what it was made of
Shifts ==
  [q \in {"lsh(sub)", "lsh(testIt)", "lsh(raise)",
          "rsh(stringify)", "rsh(testIt)", "rsh(raise)"} |->
     CASE q = "lsh(sub)" -> [op |-> "lsh", of |-> "sub"]
       [] q = "lsh(testIt)" -> [op |-> "lsh", of |-> "testIt"]
       [] q = "lsh(raise)" -> [op |-> "lsh", of |-> "raise"]
       [] q = "rsh(stringify)" -> [op |-> "rsh", of |-> "stringify"]
       [] q = "rsh(testIt)" -> [op |-> "rsh", of |-> "testIt"]
       [] q = "rsh(raise)" -> [op |-> "rsh", of |-> "raise"]]

\* lsh(func) and rsh(plugin) as values
shifted(op, f) == CHOOSE q \in DOMAIN Shifts : Shifts[q] = [op |-> op, of |-> f]

RECURSIVE apply(_, _, _, _)
RECURSIVE lsh(_, _, _, _)
RECURSIVE rsh(_, _, _, _)

\* the function pluginize returns handing on the arguments of its own call
pluginizedForwards(M, q, thisArg, args) ==
  apply(M, Closures[q].plugin, thisArg, args)

\* the function pluginize(plugin)(...fixed) returns, called with receiver
\* thisArg and with args: return plugin.apply(this, fixed)
pluginized(M, q, thisArg, args) ==
  apply(M, Closures[q].plugin, thisArg, Closures[q].fixed)

\* plugin.apply(thisArg, args)
apply(M, p, thisArg, args) ==
  IF p = NotAFunction THEN [M EXCEPT !.done = Thrown(TypeError)]
  ELSE IF p \in DOMAIN Closures THEN pluginized(M, p, thisArg, args)
  ELSE IF p \in DOMAIN Shifts THEN
    \* function (this: TContext, ...use) of lsh; (context, ...args) => of rsh
    IF Shifts[p].op = "lsh" THEN lsh(M, Shifts[p].of, thisArg, args)
    ELSE rsh(M, Shifts[p].of, Param(args, 1), SubSeq(args, 2, Len(args)))
  ELSE LET M1 == Body(M, p, thisArg, args)
       IN [M1 EXCEPT !.calls = Append(@, Invocation(M, p, thisArg, args, M1.done))]

\* the body of scope plugin p: receiver the instance w, parameters the
\* context and the array at location l itself
ScopeBody(M, p, w, ctx, l) ==
  CASE p = "clearUse" ->
         [M EXCEPT !.arrays[l] = <<>>, !.done = Returned(Self(w))]
    [] p = "useLength" ->
         [M EXCEPT !.done = Returned(Num(Len(M.arrays[l])))]
    [] p = "keepUse" ->     \* the plugin keeps the array for its caller
         [M EXCEPT !.held = l, !.done = Returned(ArrRef(l))]

\* plugin.call(this, context, use)
call(M, p, w, ctx, l) ==
  LET M1 == ScopeBody(M, p, w, ctx, l)
  IN [M1 EXCEPT !.calls =
        Append(@, Invocation(M, p, Self(w), <<ctx, ArrRef(l)>>, M1.done))]

-----------------------------------------------------------------------------
(* lsh and rsh: the function each returns, called with its receiver and    *)
(* its arguments                                                           *)

\* lsh handing the arguments over one by one: func(this, ...use)
lshSpreads(M, func, this, use) == apply(M, func, Undefined, <<this>> \o use)

\* rsh handing the arguments over one by one: plugin.call(context, ...args)
rshSpreads(M, plugin, context, args) == apply(M, plugin, context, args)

\* lsh(func).call(this, ...use): return func(this, use)
lsh(M, func, this, use) == apply(M, func, Undefined, <<this, List(use)>>)

\* rsh(plugin)(context, ...args): return plugin.call(context, args)
rsh(M, plugin, context, args) == apply(M, plugin, context, <<List(args)>>)

-----------------------------------------------------------------------------
(* Context: constructor, context, change, use, useArray *)

constructor(M, v) ==
  LET l == FreshLoc(M, 0)
      M1 == NewArray(M, l, <<>>)
      w == Len(M.wrappers) + 1
  IN [M1 EXCEPT !.wrappers = Append(M.wrappers, [_context |-> v, _use |-> l]),
                !.done = Returned(Self(w))]

\* context handing the value over: the instance is left without it
contextTakes(M, w) ==
  [M EXCEPT !.wrappers[w]._context = Undefined,
            !.done = Returned(M.wrappers[w]._context)]

context(M, w) == [M EXCEPT !.done = Returned(M.wrappers[w]._context)]

\* change with the assignment left out
changeIgnored(M, w, v) == [M EXCEPT !.done = Returned(Self(w))]

change(M, w, v) ==
  [M EXCEPT !.wrappers[w]._context = v, !.done = Returned(Self(w))]

\* use pushing onto one array all the instances have in common
useShared(M, w, args) ==
  [M EXCEPT !.arrays = [l \in DOMAIN @ |-> @[l] \o args],
            !.done = Returned(Self(w))]

\* use putting the new arguments in front of the staged ones
usePrepends(M, w, args) ==
  [M EXCEPT !.arrays[M.wrappers[w]._use] = args \o @,
            !.done = Returned(Self(w))]

use(M, w, args) ==
  [M EXCEPT !.arrays[M.wrappers[w]._use] = @ \o args,
            !.done = Returned(Self(w))]

\* useArray pushing the items of the array onto the staged ones
useArrayAppends(M, w, l) ==
  [M EXCEPT !.arrays[M.wrappers[w]._use] = @ \o M.arrays[l],
            !.done = Returned(Self(w))]

useArray(M, w, l) ==
  [M EXCEPT !.wrappers[w]._use = l, !.done = Returned(Self(w))]

-----------------------------------------------------------------------------
(* Context: tasks, task, make, map, scope *)

\* the reset left out
clearForgotten(M, w) == M

\* the staged array emptied in place: this._use.length = 0
clearInPlace(M, w) == [M EXCEPT !.arrays[M.wrappers[w]._use] = <<>>]

\* this._use = undefined
clearToUndefined(M, w) == [M EXCEPT !.wrappers[w]._use = 0]

\* this._use = []
clear(M, w) ==
  LET l == FreshLoc(M, w)
  IN [NewArray(M, l, <<>>) EXCEPT !.wrappers[w]._use = l]

\* the two branches of the conditional swapped
resolveSwapped(M, w, explicit) ==
  IF Len(explicit) = 0 THEN explicit ELSE Staged(M, w)

\* let args = use.length === 0 ? this._use : use
resolve(M, w, explicit) ==
  IF Len(explicit) = 0 THEN Staged(M, w) ELSE explicit

\* the loop calling plugin.apply(this._context), the arguments left out
RECURSIVE loopNoArgs(_, _, _, _)
loopNoArgs(M, w, plugins, i) ==
  IF i > Len(plugins) THEN M
  ELSE LET M1 == apply(M, plugins[i], M.wrappers[w]._context, <<>>)
       IN IF M1.done.kind = "throw" THEN M1
          ELSE loopNoArgs(M1, w, plugins, i + 1)

\* the loop catching what a plugin throws and going on
RECURSIVE loopKeepsGoing(_, _, _, _)
loopKeepsGoing(M, w, plugins, i) ==
  IF i > Len(plugins) THEN M
  ELSE LET M1 == apply(M, plugins[i], M.wrappers[w]._context, Staged(M, w))
       IN loopKeepsGoing([M1 EXCEPT !.done = Returned(Undefined)],
                         w, plugins, i + 1)

\* the for loop of tasks from index i on: it ends at the first throw
RECURSIVE loop(_, _, _, _)
loop(M, w, plugins, i) ==
  IF i > Len(plugins) THEN M
  ELSE LET M1 == apply(M, plugins[i], M.wrappers[w]._context, Staged(M, w))
       IN IF M1.done.kind = "throw" THEN M1 ELSE loop(M1, w, plugins, i + 1)

\* the loop started at index 1 of a zero-based array
tasksFromSecond(M, w, plugins) ==
  LET M1 == loop(M, w, plugins, 2)
  IN IF M1.done.kind = "throw" THEN M1
     ELSE [clear(M1, w) EXCEPT !.done = Returned(Self(w))]

\* the reset put in a finally block
tasksFinally(M, w, plugins) ==
  LET M1 == loop(M, w, plugins, 1)
  IN IF M1.done.kind = "throw" THEN [clear(M1, w) EXCEPT !.done = M1.done]
     ELSE [clear(M1, w) EXCEPT !.done = Returned(Self(w))]

\* a loop over the plugins with one receiver and one argument list
RECURSIVE loopWith(_, _, _, _, _)
loopWith(M, plugins, i, receiver, args) ==
  IF i > Len(plugins) THEN M
  ELSE LET M1 == apply(M, plugins[i], receiver, args)
       IN IF M1.done.kind = "throw" THEN M1
          ELSE loopWith(M1, plugins, i + 1, receiver, args)

\* tasks reading this._context and this._use once, before the loop
tasksReadOnce(M, w, plugins) ==
  LET M1 == loopWith(M, plugins, 1, M.wrappers[w]._context, Staged(M, w))
  IN IF M1.done.kind = "throw" THEN M1
     ELSE [clear(M1, w) EXCEPT !.done = Returned(Self(w))]

tasks(M, w, plugins) ==
  LET M1 == loop(M, w, plugins, 1)
  IN IF M1.done.kind = "throw" THEN M1
     ELSE [clear(M1, w) EXCEPT !.done = Returned(Self(w))]

\* task wrapping the instance anew for its caller
taskReturnsNew(M, w, p, explicit) ==
  LET M1 == apply(M, p, M.wrappers[w]._context, resolve(M, w, explicit))
  IN IF M1.done.kind = "throw" THEN M1
     ELSE constructor(M1, M1.wrappers[w]._context)

task(M, w, p, explicit) ==
  LET M1 == apply(M, p, M.wrappers[w]._context, resolve(M, w, explicit))
  IN IF M1.done.kind = "throw" THEN M1
     ELSE [M1 EXCEPT !.done = Returned(Self(w))]

\* make resetting the staged arguments before it invokes the plugin
makeClearsFirst(M, w, p, explicit) ==
  LET args == resolve(M, w, explicit)
      M0 == clear(M, w)
  IN apply(M0, p, M0.wrappers[w]._context, args)

\* make resetting the staged arguments in a finally block
makeFinally(M, w, p, explicit) ==
  LET M1 == apply(M, p, M.wrappers[w]._context, resolve(M, w, explicit))
  IN [clear(M1, w) EXCEPT !.done = M1.done]

\* make returning the instance, as task does
makeReturnsThis(M, w, p, explicit) ==
  LET M1 == apply(M, p, M.wrappers[w]._context, resolve(M, w, explicit))
  IN IF M1.done.kind = "throw" THEN M1
     ELSE [clear(M1, w) EXCEPT !.done = Returned(Self(w))]

make(M, w, p, explicit) ==
  LET M1 == apply(M, p, M.wrappers[w]._context, resolve(M, w, explicit))
  IN IF M1.done.kind = "throw" THEN M1
     ELSE [clear(M1, w) EXCEPT !.done = M1.done]

\* map handing the plugin the staged arguments whatever it was given
mapIgnoresExplicit(M, w, p, explicit) ==
  LET M1 == apply(M, p, M.wrappers[w]._context, Staged(M, w))
  IN IF M1.done.kind = "throw" THEN M1
     ELSE LET M2 == constructor(M1, M1.done.value)
          IN [clear(M2, w) EXCEPT !.done = M2.done]

\* map putting the result into the instance itself and returning it
mapInPlace(M, w, p, explicit) ==
  LET M1 == apply(M, p, M.wrappers[w]._context, resolve(M, w, explicit))
  IN IF M1.done.kind = "throw" THEN M1
     ELSE [clear(M1, w) EXCEPT !.wrappers[w]._context = M1.done.value,
                               !.done = Returned(Self(w))]

map(M, w, p, explicit) ==
  LET M1 == apply(M, p, M.wrappers[w]._context, resolve(M, w, explicit))
  IN IF M1.done.kind = "throw" THEN M1
     ELSE LET M2 == constructor(M1, M1.done.value)
          IN [clear(M2, w) EXCEPT !.done = M2.done]

\* scope resetting the staged arguments as make does
scopeClears(M, w, p, explicit) ==
  LET M1 == call(M, p, w, M.wrappers[w]._context, M.wrappers[w]._use)
  IN IF M1.done.kind = "throw" THEN M1
     ELSE [clear(M1, w) EXCEPT !.done = M1.done]

\* scope handing the plugin the resolved args: the explicit arguments, a new
\* array, when there are some
scopeResolved(M, w, p, explicit) ==
  IF Len(explicit) = 0
  THEN call(M, p, w, M.wrappers[w]._context, M.wrappers[w]._use)
  ELSE LET l == Len(M.arrays) + 1
           M1 == call(NewArray(M, l, explicit), p, w, M.wrappers[w]._context, l)
       IN M1

scope(M, w, p, explicit) ==
  call(M, p, w, M.wrappers[w]._context, M.wrappers[w]._use)

-----------------------------------------------------------------------------
(* Plugins that close over the instance c made first and call its methods  *)
(* while they run                                                          *)

Reentrant(M, p, thisArg, args) ==
  CASE p = "reChange" ->    \* c.change(20)
         [change(M, 1, Num(20)) EXCEPT !.done = Returned(Undefined)]
    [] p = "reUse" ->       \* c.use(7)
         [use(M, 1, <<Num(7)>>) EXCEPT !.done = Returned(Undefined)]
    [] p = "reUseArray" ->  \* c.useArray([7])
         LET l == FreshLoc(M, 0)
         IN [useArray(NewArray(M, l, <<Num(7)>>), 1, l)
               EXCEPT !.done = Returned(Undefined)]
    [] p = "reMake" ->      \* c.make(increment)
         LET M1 == make(M, 1, "increment", <<>>)
         IN [M1 EXCEPT !.done = Returned(Undefined)]
    [] p = "reMap" ->       \* c.map(increment), the new instance let go of
         LET M1 == map(M, 1, "increment", <<>>)
         IN [M1 EXCEPT !.wrappers = SubSeq(@, 1, Len(@) - 1),
                       !.done = Returned(Undefined)]
    [] p = "reUseRaise" ->  \* c.use(7); c.change(20); throw new Error()
         [use(change(M, 1, Num(20)), 1, <<Num(7)>>) EXCEPT !.done = Thrown(ErrorE)]

-----------------------------------------------------------------------------
(* Init and the actions *)

InitVals == {Num(10)}
NewVals == {Num(20)}
StageVals == {Num(1), Num(2)}
Explicits == {<<>>, <<Num(9)>>, <<Num(9), Num(8)>>}
Plugins == {"testIt", "increment", "raise"}
ScopePlugins == {"clearUse", "useLength"}
ObjectPlugins == {"or", "and", "xor", "raise"}
StageArgs == SeqsUpTo(StageVals, MaxLen) \ {<<>>}
Literals == SeqsUpTo(StageVals, MaxLen)
Batches == SeqsUpTo({"increment", "raise"}, MaxPlugins)
Extras == {<<>>, <<Num(9)>>}
\* batches of plugins of the object, none given twice
ObjectBatches ==
  {s \in SeqsUpTo(ObjectPlugins, MaxPlugins) :
     \A i, j \in 1..Len(s) : i # j => s[i] # s[j]}
Consuming == {"tasks", "task", "make", "map"}

NoCall ==
  [op |-> "new", w |-> 1, explicit |-> <<>>, plugins |-> <<>>,
   staged0 |-> <<>>, value0 |-> Undefined, use0 |-> 1, stale |-> FALSE,
   calls |-> <<>>, done |-> Returned(Self(1)), made |-> <<>>]

\* new Context(v), the plain object being {a: a, b: b}
InitWith(v, a, b) ==
  /\ wrappers = <<[_context |-> v, _use |-> 1]>>
  /\ arrays = <<<<>>>>
  /\ obj = [a |-> Bool(a), b |-> Bool(b),
            or |-> Undefined, and |-> Undefined, xor |-> Undefined]
  /\ held = 0
  /\ spent = <<FALSE>>
  /\ last = [NoCall EXCEPT !.explicit = <<v>>]

Init == \E v \in InitVals : InitWith(v, TRUE, FALSE)

Live == 1..Len(wrappers)

Commit(M) ==
  LET G == Collect(M)
  IN /\ wrappers' = G.wrappers
     /\ arrays' = G.arrays
     /\ obj' = G.obj
     /\ held' = G.held

Record(op, w, plugins, explicit, M) ==
  [op |-> op, w |-> w, explicit |-> explicit, plugins |-> plugins,
   staged0 |-> Staged(Cur, w), value0 |-> wrappers[w]._context,
   use0 |-> wrappers[w]._use, stale |-> spent[w],
   calls |-> M.calls, done |-> M.done, made |-> <<>>]

\* the instances whose staged sequence is the array at location l
Sharing(l) == {x \in Live : wrappers[x]._use = l}

New(v) ==
  /\ Len(wrappers) < MaxWrappers
  /\ LET M == constructor(Cur, v)
     IN /\ Commit(M)
        /\ spent' = Append(spent, FALSE)
        /\ last' = [NoCall EXCEPT !.w = Len(wrappers) + 1, !.explicit = <<v>>,
                                  !.done = M.done]

Context(w) ==
  LET M == context(Cur, w)
  IN /\ Commit(M)
     /\ spent' = spent
     /\ last' = Record("context", w, <<>>, <<>>, M)

Change(w, v) ==
  LET M == change(Cur, w, v)
  IN /\ Commit(M)
     /\ spent' = spent
     /\ last' = Record("change", w, <<>>, <<v>>, M)

Use(w, args) ==
  /\ Len(Staged(Cur, w)) + Len(args) <= MaxLen
  /\ LET M == use(Cur, w, args)
     IN /\ Commit(M)
        /\ spent' = [x \in Live |->
                       IF x \in Sharing(wrappers[w]._use) THEN FALSE ELSE spent[x]]
        /\ last' = Record("use", w, <<>>, args, M)

\* useArray([...]): the caller passes an array literal and keeps it in its
\* own variable when keep is true
UseArray(w, content, keep) ==
  LET l == FreshLoc(Cur, 0)
      M0 == NewArray(Cur, l, content)
      M == useArray([M0 EXCEPT !.held = IF keep THEN l ELSE M0.held], w, l)
  IN /\ Commit(M)
     /\ spent' = [spent EXCEPT ![w] = FALSE]
     /\ last' = Record("useArray", w, <<>>, content, M)

\* useArray(s), s the array the caller has kept
UseArrayHeld(w) ==
  /\ held # 0
  /\ LET M == useArray(Cur, w, held)
     IN /\ Commit(M)
        /\ spent' = [spent EXCEPT ![w] = FALSE]
        /\ last' = Record("useArray", w, <<>>, arrays[held], M)

\* after a call of a consuming method on w: spent once it has returned
Spend(w, M) ==
  IF M.done.kind = "return" THEN [spent EXCEPT ![w] = TRUE] ELSE spent

\* a value of the argument list that is not a function, as tasks takes it
AsItems(explicit) == [i \in 1..Len(explicit) |-> NotAFunction]

\* tasks(...plugins, ...explicit): tasks has the one rest parameter, so what
\* the caller passes after the plugins is taken for more plugins
Tasks(w, plugins, explicit) ==
  LET M == tasks(Cur, w, plugins \o AsItems(explicit))
  IN /\ Commit(M)
     /\ spent' = Spend(w, M)
     /\ last' = Record("tasks", w, plugins, explicit, M)

Task(w, p, explicit) ==
  LET M == task(Cur, w, p, explicit)
  IN /\ Commit(M)
     /\ spent' = Spend(w, M)
     /\ last' = Record("task", w, <<p>>, explicit, M)

Make(w, p, explicit) ==
  LET M == make(Cur, w, p, explicit)
  IN /\ Commit(M)
     /\ spent' = Spend(w, M)
     /\ last' = Record("make", w, <<p>>, explicit, M)

\* what the caller sees of the instance map has returned
Seen(M) ==
  IF M.done.kind = "return"
  THEN <<[_context |-> M.wrappers[M.done.value[2]]._context,
          staged |-> Staged(M, M.done.value[2])]>>
  ELSE <<>>

\* the caller drops the instance map has returned
Drop(M) ==
  IF M.done.kind = "return"
  THEN [M EXCEPT !.wrappers = SubSeq(@, 1, Len(@) - 1)]
  ELSE M

\* map, the caller reading the new instance and letting go of it
MapOnce(w, p, explicit) ==
  LET M == map(Cur, w, p, explicit)
  IN /\ Commit(Drop(M))
     /\ spent' = Spend(w, M)
     /\ last' = [Record("map", w, <<p>>, explicit, M) EXCEPT !.made = Seen(M)]

\* map, the caller keeping the new instance
Map(w, p, explicit) ==
  /\ Len(wrappers) < MaxChain
  /\ LET M == map(Cur, w, p, explicit)
     IN /\ Commit(M)
        /\ spent' = IF Len(M.wrappers) > Len(wrappers)
                    THEN Append(Spend(w, M), FALSE) ELSE Spend(w, M)
        /\ last' = [Record("map", w, <<p>>, explicit, M) EXCEPT !.made = Seen(M)]

Scope(w, p, explicit) ==
  LET M == scope(Cur, w, p, explicit)
  IN /\ Commit(M)
     /\ spent' = spent
     /\ last' = Record("scope", w, <<p>>, explicit, M)

Next ==
  \/ \E w \in Live : Context(w)
  \/ \E w \in Live, v \in NewVals : Change(w, v)
  \/ \E w \in Live, args \in StageArgs : Use(w, args)
  \/ \E w \in Live, content \in Literals : UseArray(w, content, FALSE)
  \/ \E w \in Live, plugins \in Batches, explicit \in Extras :
       Tasks(w, plugins, explicit)
  \/ \E w \in Live, p \in Plugins, explicit \in Explicits : Task(w, p, explicit)
  \/ \E w \in Live, p \in Plugins, explicit \in Explicits : Make(w, p, explicit)
  \/ \E w \in Live, p \in Plugins, explicit \in Explicits : MapOnce(w, p, explicit)
  \/ \E w \in Live, p \in ScopePlugins, explicit \in Explicits :
       Scope(w, p, explicit)

Spec == Init /\ [][Next]_vars

\* the wrapper of a plain object, and the plugins that write fields onto it
InitObject == \E b \in BOOLEAN : InitWith(ObjRef, TRUE, b)

NextObject ==
  \/ \E w \in Live : Context(w)
  \/ \E w \in Live : Use(w, <<Num(1)>>)
  \/ \E w \in Live, plugins \in ObjectBatches : Tasks(w, plugins, <<>>)
  \/ \E w \in Live, p \in ObjectPlugins : Task(w, p, <<>>)
  \/ \E w \in Live, p \in ObjectPlugins : Make(w, p, <<>>)

SpecObject == InitObject /\ [][NextObject]_vars

\* instances made of several values, read, changed and staged on
PairVals == {Num(10), ObjRef}

InitValues == \E v \in PairVals : InitWith(v, TRUE, FALSE)

NextValues ==
  \/ \E v \in PairVals : New(v)
  \/ \E w \in Live : Context(w)
  \/ \E w \in Live, v \in PairVals : Change(w, v)
  \/ \E w \in Live : Use(w, <<Num(1)>>)

SpecValues == InitValues /\ [][NextValues]_vars

\* two instances a and b, b made by new Context(10) or by a.map(increment),
\* and one array the caller gives to both
Nothing ==
  [wrappers |-> <<>>, arrays |-> <<>>,
   obj |-> [a |-> Bool(TRUE), b |-> Bool(FALSE),
            or |-> Undefined, and |-> Undefined, xor |-> Undefined],
   held |-> 0, calls |-> <<>>, done |-> Returned(Undefined)]

Pairs ==
  LET A == constructor(Nothing, Num(10))
  IN {constructor(A, Num(10)), map(A, 1, "increment", <<>>)}

InitPair ==
  \E M \in Pairs :
    /\ wrappers = M.wrappers
    /\ arrays = M.arrays
    /\ obj = M.obj
    /\ held = M.held
    /\ spent = <<M.calls # <<>>, FALSE>>
    /\ last = [NoCall EXCEPT !.op = IF M.calls = <<>> THEN "new" ELSE "map",
                             !.w = IF M.calls = <<>> THEN 2 ELSE 1,
                             !.explicit = IF M.calls = <<>> THEN <<Num(10)>> ELSE <<>>,
                             !.plugins = IF M.calls = <<>> THEN <<>> ELSE <<"increment">>,
                             !.value0 = IF M.calls = <<>> THEN Undefined ELSE Num(10),
                             !.calls = M.calls, !.done = M.done,
                             !.made = IF M.calls = <<>> THEN <<>> ELSE Seen(M)]

NextPair ==
  \/ \E w \in Live, v \in NewVals : Change(w, v)
  \/ \E w \in Live : Use(w, <<Num(1)>>)
  \/ \E w \in Live : UseArray(w, <<>>, TRUE)
  \/ \E w \in Live : UseArrayHeld(w)
  \/ \E w \in Live : MapOnce(w, "increment", <<>>)
  \/ \E w \in Live : Scope(w, "clearUse", <<>>)

SpecPair == InitPair /\ [][NextPair]_vars

\* lsh and rsh applied to functions, receivers and arguments
ShiftFunctions == {"sub", "testIt", "raise"}
ShiftPlugins == {"stringify", "increment", "testIt", "raise"}
Receivers == {Num(10), Num(12345), Undefined}
ShiftArgs == SeqsUpTo({Num(5), Num(2)}, MaxLen)

\* a call of a function that is no method of an instance
Applied(op, f, receiver, args, M) ==
  /\ Commit(M)
  /\ spent' = spent
  /\ last' = [NoCall EXCEPT !.op = op, !.plugins = <<f>>, !.explicit = args,
                            !.value0 = receiver, !.calls = M.calls,
                            !.done = M.done]

Lsh(func, receiver, rest) ==
  Applied("lsh", func, receiver, rest, lsh(Cur, func, receiver, rest))

Rsh(plugin, receiver, rest) ==
  Applied("rsh", plugin, receiver, rest, rsh(Cur, plugin, receiver, rest))

NextShift ==
  \/ \E f \in ShiftFunctions, r \in Receivers, args \in ShiftArgs : Lsh(f, r, args)
  \/ \E p \in ShiftPlugins, c \in Receivers, args \in ShiftArgs : Rsh(p, c, args)

SpecShift == Init /\ [][NextShift]_vars

\* lsh and rsh applied to what the other has returned
ComposeFunctions == {Shifts[q].of : q \in {x \in DOMAIN Shifts : Shifts[x].op = "lsh"}}
ComposePlugins == {Shifts[q].of : q \in {x \in DOMAIN Shifts : Shifts[x].op = "rsh"}}

\* rsh(lsh(f))(c, ...rest)
RshLsh(f, c, rest) ==
  Applied("rsh(lsh)", f, c, rest, rsh(Cur, shifted("lsh", f), c, rest))

\* lsh(rsh(p)).call(receiver, ...rest)
LshRsh(p, receiver, rest) ==
  Applied("lsh(rsh)", p, receiver, rest, lsh(Cur, shifted("rsh", p), receiver, rest))

NextCompose ==
  \/ \E f \in ComposeFunctions, c \in Receivers, args \in ShiftArgs : RshLsh(f, c, args)
  \/ \E p \in ComposePlugins, r \in Receivers, args \in ShiftArgs : LshRsh(p, r, args)

SpecCompose == Init /\ [][NextCompose]_vars

\* plugins made by pluginize, called as they are and given to make and map
Pluginized == {pluginize(Closures[q].plugin, Closures[q].fixed) : q \in DOMAIN Closures}

\* pluginize(plugin)(...fixed).apply(receiver, rest)
Pluginize(q, receiver, rest) ==
  Applied("pluginize", q, receiver, rest, apply(Cur, q, receiver, rest))

NextPluginize ==
  \/ \E q \in Pluginized, r \in Receivers, args \in ShiftArgs : Pluginize(q, r, args)
  \/ \E w \in Live, args \in StageArgs : Use(w, args)
  \/ \E w \in Live, q \in Pluginized, explicit \in Extras : Make(w, q, explicit)
  \/ \E w \in Live, q \in Pluginized, explicit \in Extras : MapOnce(w, q, explicit)

SpecPluginize == Init /\ [][NextPluginize]_vars

\* chains of the methods that return this, on one of two instances
FluentPlugins == {"testIt", "raise"}
FluentBatches == SeqsUpTo(FluentPlugins, 1)

NextFluent ==
  \/ \E w \in Live, v \in NewVals : Change(w, v)
  \/ \E w \in Live : Use(w, <<Num(1)>>)
  \/ \E w \in Live : UseArray(w, <<Num(2)>>, FALSE)
  \/ \E w \in Live, p \in FluentPlugins : Task(w, p, <<>>)
  \/ \E w \in Live, plugins \in FluentBatches : Tasks(w, plugins, <<>>)

SpecFluent == InitPair /\ [][NextFluent]_vars

\* plugins that call back into the instance while tasks, task, make or map
\* runs them
Callbacks == {"reChange", "reUse", "reUseArray", "reMake", "reMap", "reUseRaise"}
ReentrantPlugins == Callbacks \cup {"testIt", "raise"}
ReentrantBatches ==
  {<<p>> : p \in ReentrantPlugins}
    \cup {<<p, q>> : p \in ReentrantPlugins, q \in {"testIt", "reUse", "raise"}}

\* no array of M is longer than the longest staged sequence
Short(M) == \A l \in DOMAIN M.arrays : Len(M.arrays[l]) <= MaxLen

NextReentrant ==
  \/ \E w \in Live : Use(w, <<Num(1)>>)
  \/ \E w \in Live, plugins \in ReentrantBatches :
       Short(tasks(Cur, w, plugins)) /\ Tasks(w, plugins, <<>>)
  \/ \E w \in Live, p \in ReentrantPlugins :
       Short(task(Cur, w, p, <<>>)) /\ Task(w, p, <<>>)
  \/ \E w \in Live, p \in ReentrantPlugins :
       Short(make(Cur, w, p, <<>>)) /\ Make(w, p, <<>>)
  \/ \E w \in Live, p \in ReentrantPlugins :
       Short(map(Cur, w, p, <<>>)) /\ MapOnce(w, p, <<>>)

SpecReentrant == Init /\ [][NextReentrant]_vars

\* one instance and the array s its caller holds: given to useArray, or
\* taken from scope
NextAlias ==
  \/ \E w \in Live : UseArray(w, <<Num(2)>>, TRUE)
  \/ \E w \in Live : Use(w, <<Num(1)>>)
  \/ \E w \in Live, plugins \in FluentBatches : Tasks(w, plugins, <<>>)
  \/ \E w \in Live, p \in FluentPlugins, explicit \in Extras : Make(w, p, explicit)
  \/ \E w \in Live, p \in FluentPlugins, explicit \in Extras : MapOnce(w, p, explicit)
  \/ \E w \in Live : Scope(w, "keepUse", <<>>)

SpecAlias == Init /\ [][NextAlias]_vars

\* chains of map calls from new Context(10), every instance kept
ChainPlugins == {"increment", "testIt"}

NextChain ==
  \/ \E w \in Live : Context(w)
  \/ \E w \in Live : Use(w, <<Num(1)>>)
  \/ \E w \in Live, p \in ChainPlugins : Map(w, p, <<>>)

SpecChain == Init /\ [][NextChain]_vars

\* the wrapper of an array of numbers, and the plugin that sums it
Numbers == {<<Num(1), Num(2), Num(3), Num(4), Num(5)>>, <<Num(2), Num(1)>>, <<>>}
ArrayPlugins == {"sum", "testIt", "raise"}

\* new Context([...])
InitArray ==
  /\ \E items \in Numbers : arrays = <<<<>>, items>>
  /\ wrappers = <<[_context |-> ArrRef(2), _use |-> 1]>>
  /\ obj = [a |-> Bool(TRUE), b |-> Bool(FALSE),
            or |-> Undefined, and |-> Undefined, xor |-> Undefined]
  /\ held = 0
  /\ spent = <<FALSE>>
  /\ last = [NoCall EXCEPT !.explicit = <<ArrRef(2)>>]

NextArray ==
  \/ \E w \in Live : Context(w)
  \/ \E w \in Live, v \in NewVals : Change(w, v)
  \/ \E w \in Live, args \in StageArgs : Use(w, args)
  \/ \E w \in Live, p \in ArrayPlugins, explicit \in Explicits : Make(w, p, explicit)

SpecArray == InitArray /\ [][NextArray]_vars

-----------------------------------------------------------------------------
(* The claims *)

Truthy(v) == v \notin {Num(0), Bool(FALSE), Undefined, NaN}

\* what the plugin or, and, xor writes onto the object
Written(p) ==
  LET a == ToInt32(obj.a)
      b == ToInt32(obj.b)
  IN CASE p = "or" -> Num(BitOr(a, b))
       [] p = "and" -> Num(BitAnd(a, b))
       [] p = "xor" -> Num(BitXor(a, b))

\* the index of the first plugin of the batch that raises, 0 if none does
FirstRaise(plugins) ==
  IF \E i \in 1..Len(plugins) : plugins[i] = "raise"
  THEN CHOOSE i \in 1..Len(plugins) :
         /\ plugins[i] = "raise"
         /\ \A k \in 1..(i - 1) : plugins[k] # "raise"
  ELSE 0

\* C1: task, make and map invoke the plugin exactly once, with the wrapped
\* value as receiver and with exactly the explicit arguments when there are
\* some, otherwise with exactly the staged arguments, in their order.
ArgumentResolution ==
  last.op \in {"task", "make", "map"} =>
    /\ Len(last.calls) = 1
    /\ last.calls[1].plugin = last.plugins[1]
    /\ last.calls[1].this = last.value0
    /\ last.calls[1].args =
         IF last.explicit # <<>> THEN last.explicit ELSE last.staged0

ExplicitOverridesStaged ==
  /\ last.op = "task"
  /\ last.staged0 = <<Num(1), Num(2)>>
  /\ last.explicit = <<Num(9)>>
  /\ last.calls[1].args = <<Num(9)>>

\* C2: after task has returned normally on a wrapper whose staged sequence
\* was not empty, the staged sequence is empty.
TaskClearsStaged ==
  (last.op = "task" /\ last.done.kind = "return" /\ last.staged0 # <<>>)
    => Staged(Cur, last.w) = <<>>

\* C3: after make, map or tasks has returned normally the staged sequence is
\* empty, whatever was staged, whether or not explicit arguments were given,
\* and also when tasks was given no plugin.
MakeMapTasksClear ==
  (last.op \in {"make", "map", "tasks"} /\ last.done.kind = "return")
    => Staged(Cur, last.w) = <<>>

StagedDroppedUndelivered ==
  /\ last.op \in {"make", "map"}
  /\ last.done.kind = "return"
  /\ last.staged0 = <<Num(1), Num(2)>>
  /\ last.explicit # <<>>
  /\ last.calls[1].args = last.explicit
  /\ Staged(Cur, last.w) = <<>>

\* C4: once a consuming call (tasks, task, make, map) has returned normally,
\* and until something is staged again, no plugin of a later consuming call
\* receives a staged argument.
StagedNeverLeaks ==
  (last.op \in Consuming /\ last.stale /\ last.explicit = <<>>)
    => \A i \in 1..Len(last.calls) : last.calls[i].args = <<>>

\* C5, as claimed: tasks called with plugins and explicit arguments invokes
\* every plugin of the batch with exactly the explicit arguments.
TasksHonourExplicit ==
  (last.op = "tasks" /\ last.explicit # <<>>)
    => /\ Len(last.calls) = Len(last.plugins)
       /\ \A i \in 1..Len(last.calls) : last.calls[i].args = last.explicit

\* C5, amended: tasks has no parameter for explicit arguments.  Every plugin
\* it invokes receives the staged arguments; a value passed after the
\* plugins is never delivered as an argument, it is taken for a plugin, and
\* tasks raises a TypeError at it once the plugins before it have run.
TasksDeliverStaged ==
  last.op = "tasks" =>
    /\ \A i \in 1..Len(last.calls) : last.calls[i].args = last.staged0
    /\ (last.explicit # <<>> /\ FirstRaise(last.plugins) = 0)
         => /\ Len(last.calls) = Len(last.plugins)
            /\ last.done = Thrown(TypeError)

TasksGivenExtraArguments ==
  /\ last.op = "tasks"
  /\ last.explicit = <<Num(9)>>
  /\ last.staged0 = <<Num(1), Num(2)>>
  /\ Len(last.calls) = 2
  /\ last.calls[2].args = <<Num(1), Num(2)>>

\* C6: tasks that returns has invoked every plugin of the batch exactly once,
\* in the given order, each with the wrapped value as receiver, and returns
\* the wrapper whatever the plugins returned; what plugin k wrote onto the
\* receiver is there for plugin k+1 and for a read afterwards.  For
\* {a: true, b: false} and the plugins or, and, xor the object ends with
\* or true, and false, xor true, and the staged sequence is empty.
TasksRunInOrder ==
  (last.op = "tasks" /\ last.done.kind = "return") =>
    /\ Len(last.calls) = Len(last.plugins)
    /\ \A i \in 1..Len(last.calls) :
         /\ last.calls[i].plugin = last.plugins[i]
         /\ last.calls[i].this = last.value0
         /\ obj[last.plugins[i]] = Written(last.plugins[i])
         /\ \A k \in 1..(i - 1) :
              last.calls[i].fields[last.plugins[k]] = Written(last.plugins[k])
    /\ last.done.value = Self(last.w)
    /\ wrappers[last.w]._context = last.value0
    /\ (last.plugins = <<"or", "and", "xor">> /\ obj.b = Bool(FALSE))
         => /\ Truthy(obj.or)
            /\ ~Truthy(obj.and)
            /\ Truthy(obj.xor)
            /\ Staged(Cur, last.w) = <<>>

OrAndXorScenario ==
  /\ last.op = "tasks"
  /\ last.plugins = <<"or", "and", "xor">>
  /\ last.done.kind = "return"
  /\ obj.a = Bool(TRUE) /\ obj.b = Bool(FALSE)
  /\ last.calls[1].fields["or"] = Undefined
  /\ last.calls[3].fields["or"] = Num(1)
  /\ last.staged0 # <<>>
  /\ obj.or = Num(1) /\ obj.and = Num(0) /\ obj.xor = Num(1)

\* C7: what a plugin raises is what tasks, task, make or map raises, and no
\* plugin of a batch is invoked after the one that raised.
PluginErrorPropagates ==
  last.op \in Consuming =>
    /\ \A i \in 1..Len(last.calls) :
         last.calls[i].done.kind = "throw"
           => (i = Len(last.calls) /\ last.done = last.calls[i].done)
    /\ FirstRaise(last.plugins) # 0
         => /\ last.done = Thrown(ErrorE)
            /\ Len(last.calls) = FirstRaise(last.plugins)

RaiseStopsBatch ==
  /\ last.op = "tasks"
  /\ last.plugins = <<"increment", "raise", "increment">>
  /\ Len(last.calls) = 2
  /\ last.done = Thrown(ErrorE)

\* C8: when a plugin of a batch raises, what the plugins before it wrote onto
\* the wrapped value stays written and the staged sequence is left as it was,
\* not cleared; it is cleared when the loop has gone through the batch.
TasksNotTransactional ==
  last.op = "tasks" =>
    /\ last.done.kind = "throw"
         => /\ Staged(Cur, last.w) = last.staged0
            /\ wrappers[last.w]._use = last.use0
            /\ \A i \in 1..(Len(last.calls) - 1) :
                 obj[last.calls[i].plugin] = Written(last.calls[i].plugin)
    /\ last.done.kind = "return" => Staged(Cur, last.w) = <<>>

FailedBatchKeepsEffects ==
  /\ last.op = "tasks"
  /\ last.done = Thrown(ErrorE)
  /\ Len(last.calls) = 3
  /\ last.calls[1].plugin = "xor"
  /\ last.calls[1].fields["xor"] = Undefined
  /\ obj.xor = Written("xor")
  /\ last.staged0 # <<>>
  /\ Staged(Cur, last.w) = last.staged0

\* C9: scope calls the plugin exactly once, with the wrapper as receiver, the
\* wrapped value as first argument and the staged array as second, returns
\* what the plugin returns, and does not clear the staged arguments; after a
\* plugin that leaves the array alone, value and staged sequence are as before.
ScopeKeepsStaged ==
  last.op = "scope" =>
    /\ Len(last.calls) = 1
    /\ last.calls[1].plugin = last.plugins[1]
    /\ last.calls[1].this = Self(last.w)
    /\ last.calls[1].args = <<last.value0, ArrRef(last.use0)>>
    /\ last.done = last.calls[1].done
    /\ wrappers[last.w]._use = last.use0
    /\ wrappers[last.w]._context = last.value0
    /\ last.plugins[1] = "useLength" => Staged(Cur, last.w) = last.staged0

ScopeLeftStaged ==
  /\ last.op = "scope"
  /\ last.plugins = <<"useLength">>
  /\ last.staged0 = <<Num(1), Num(2)>>
  /\ last.done = Returned(Num(2))
  /\ Staged(Cur, last.w) = <<Num(1), Num(2)>>

\* C10: scope hands the plugin the wrapper's own staged array, also when
\* explicit arguments are passed: these never reach the plugin and change
\* nothing, and what the plugin does to the array it was given (clearUse
\* empties it) is the staged sequence the next call delivers.
ScopeSeesLive ==
  last.op = "scope" =>
    /\ last.calls[1].args[2] = ArrRef(last.use0)
    /\ wrappers[last.w]._use = last.use0
    /\ wrappers[last.w]._context = last.value0
    /\ last.plugins[1] = "useLength"
         => /\ last.done = Returned(Num(Len(last.staged0)))
            /\ Staged(Cur, last.w) = last.staged0
    /\ last.plugins[1] = "clearUse" => Staged(Cur, last.w) = <<>>

NextDeliversWhatScopeLeft ==
  (/\ last.op = "scope"
   /\ last'.op \in {"task", "make", "map"}
   /\ last'.explicit = <<>>)
    => last'.calls[1].args =
         IF last.plugins[1] = "clearUse" THEN <<>> ELSE last.staged0

ScopeHandsLiveStaged == [](ScopeSeesLive) /\ [][NextDeliversWhatScopeLeft]_vars

ScopeDrainedDespiteExplicit ==
  /\ last.op = "scope"
  /\ last.plugins = <<"clearUse">>
  /\ last.explicit = <<Num(9)>>
  /\ last.staged0 = <<Num(1), Num(2)>>
  /\ Staged(Cur, last.w) = <<>>

\* use appends its arguments to the staged ones and touches nothing else
StageAppends ==
  last.op = "use" =>
    /\ Staged(Cur, last.w) = last.staged0 \o last.explicit
    /\ wrappers[last.w]._use = last.use0
    /\ wrappers[last.w]._context = last.value0
    /\ last.done = Returned(Self(last.w))

\* a consuming call without explicit arguments that follows a use on the
\* same instance hands every plugin what was staged, in the order staged
StagedThenDelivered ==
  (/\ last.op = "use"
   /\ last'.op \in Consuming
   /\ last'.w = last.w
   /\ last'.explicit = <<>>)
    => /\ (last'.op # "tasks" => Len(last'.calls) = 1)
       /\ \A i \in 1..Len(last'.calls) :
            /\ last'.calls[i].args = last.staged0 \o last.explicit
            /\ last'.calls[i].this = last.value0

\* C11: use appends its arguments, in their order, after what is staged
\* already, so that a run of use calls stages the concatenation of their
\* arguments; a plugin run next without explicit arguments receives exactly
\* these, in this order, with the wrapped value as receiver; use never
\* changes the wrapped value.
StageAccumulates == [](StageAppends) /\ [][StagedThenDelivered]_vars

StagedOneAfterTheOther ==
  /\ last.op = "use"
  /\ last.staged0 = <<Num(1)>>
  /\ last.explicit = <<Num(2)>>
  /\ Staged(Cur, last.w) = <<Num(1), Num(2)>>

\* C12: useArray replaces the staged arguments wholesale: afterwards the
\* staged sequence is the given one, whatever was staged before, and the
\* wrapped value is unchanged.
SetStagedReplaces ==
  last.op = "useArray" =>
    /\ Staged(Cur, last.w) = last.explicit
    /\ wrappers[last.w]._context = last.value0
    /\ last.done = Returned(Self(last.w))

StagedReplacedNotExtended ==
  /\ last.op = "useArray"
  /\ last.staged0 = <<Num(1), Num(2)>>
  /\ last.explicit = <<Num(2)>>
  /\ Staged(Cur, last.w) = <<Num(2)>>

\* C13: make returns exactly what the plugin returned, the value itself and
\* no wrapper of it, whatever the plugin and the state of the wrapper; for
\* the wrapped array [1, 2, 3, 4, 5] and the plugin summing its receiver it
\* returns 15.
MakeReturnsPluginResult ==
  (last.op = "make" /\ Len(last.calls) = 1)
    => /\ last.done = last.calls[1].done
       /\ (/\ last.plugins = <<"sum">>
           /\ last.value0 = ArrRef(2)
           /\ arrays[2] = <<Num(1), Num(2), Num(3), Num(4), Num(5)>>)
            => last.done = Returned(Num(15))

SumOfOneToFive ==
  /\ last.op = "make"
  /\ last.plugins = <<"sum">>
  /\ last.staged0 # <<>>
  /\ arrays[wrappers[last.w]._context[2]] = <<Num(1), Num(2), Num(3), Num(4), Num(5)>>
  /\ last.done = Returned(Num(15))

\* map has made an instance of its own for the plugin's result and left the
\* wrapped value of the instance it was called on alone
MapMakesNew ==
  (last.op = "map" /\ last.done.kind = "return") =>
    LET n == last.done.value[2]
    IN /\ last.done.value[1] = "Context"
       /\ n # last.w
       /\ n = Len(wrappers)
       /\ wrappers[n]._context = last.calls[1].done.value
       /\ Staged(Cur, n) = <<>>
       /\ wrappers[last.w]._context = last.value0
       /\ wrappers[1]._context = Num(10)
       /\ (last.plugins = <<"increment">> /\ last.value0[1] = "number")
            => wrappers[n]._context = Num(last.value0[2] + 1)

\* w.map(increment).map(increment): the second map called on what the first
\* has returned
MapTwice ==
  (/\ last.op = "map" /\ last'.op = "map"
   /\ last.done.kind = "return" /\ last'.done.kind = "return"
   /\ last'.w = last.done.value[2]
   /\ last.plugins = <<"increment">> /\ last'.plugins = <<"increment">>
   /\ last.value0[1] = "number")
    => /\ wrappers'[last'.done.value[2]]._context = Num(last.value0[2] + 2)
       /\ wrappers'[last.w]._context = last.value0

\* C14: map returns a new instance, not the one it was called on, that wraps
\* what the plugin returned and has nothing staged; the wrapped value of the
\* instance it was called on is unchanged.  One increment more per map of a
\* chain: two of them from new Context(10) give an instance of 12 while the
\* first instance still wraps 10.
MapChain == [](MapMakesNew) /\ [][MapTwice]_vars

TenElevenTwelve ==
  /\ last.op = "map"
  /\ last.w = 2
  /\ last.staged0 # <<>>
  /\ Len(wrappers) = 3
  /\ wrappers[1]._context = Num(10)
  /\ wrappers[2]._context = Num(11)
  /\ wrappers[3]._context = Num(12)

\* new Context(v) wraps v and has nothing staged
Created ==
  last.op = "new" =>
    /\ wrappers[last.w]._context = last.explicit[1]
    /\ Staged(Cur, last.w) = <<>>
    /\ last.done = Returned(Self(last.w))

\* context returns the wrapped value and leaves the instance as it was
ReadIsPure ==
  last.op = "context" =>
    /\ last.done = Returned(last.value0)
    /\ wrappers[last.w]._context = last.value0
    /\ wrappers[last.w]._use = last.use0
    /\ Staged(Cur, last.w) = last.staged0

\* new Context(v).context() is v; a read changes nothing at all, and a read
\* after a read returns the same
ReadBack ==
  /\ (last.op = "new" /\ last'.op = "context" /\ last'.w = last.w)
       => last'.done = Returned(last.explicit[1])
  /\ (last.op = "context" /\ last'.op = "context" /\ last'.w = last.w)
       => last'.done = last.done
  /\ last'.op = "context" => UNCHANGED <<wrappers, arrays, obj, held>>

\* C15: for every value v, new Context(v).context() is v itself and nothing
\* is staged at first; context has no side effect: it leaves the wrapped
\* value and the staged sequence as they were, so that reads one after the
\* other return the same value.
IdentityRoundTrip == [](Created /\ ReadIsPure) /\ [][ReadBack]_vars

ObjectReadBack ==
  /\ last.op = "context"
  /\ last.w = 2
  /\ last.staged0 # <<>>
  /\ last.done = Returned(ObjRef)

\* C16: change(v) makes v the wrapped value whatever was wrapped before,
\* returns the instance it was called on and leaves the staged sequence as
\* it was.
ChangeReplacesValue ==
  last.op = "change" =>
    /\ wrappers[last.w]._context = last.explicit[1]
    /\ last.done = Returned(Self(last.w))
    /\ wrappers[last.w]._use = last.use0
    /\ Staged(Cur, last.w) = last.staged0

NumberChangedToObject ==
  /\ last.op = "change"
  /\ last.value0 = Num(10)
  /\ last.explicit = <<ObjRef>>
  /\ last.staged0 # <<>>
  /\ wrappers[last.w]._context = ObjRef

\* C17: in every reachable state, the states left by a call that a plugin
\* has ended with an error included, the _use field of every instance is an
\* array, an ordered sequence, and never undefined; the array is empty right
\* after construction.
StagedIsASequence ==
  /\ \A w \in Live :
       /\ wrappers[w]._use \in 1..Len(arrays)
       /\ DOMAIN Staged(Cur, w) = 1..Len(Staged(Cur, w))
  /\ last.op = "new" => Staged(Cur, last.w) = <<>>
  /\ (last.op = "map" /\ last.made # <<>>) => last.made[1].staged = <<>>

StagedSurvivesError ==
  /\ last.op \in Consuming
  /\ last.done.kind = "throw"
  /\ last.staged0 = <<Num(1), Num(2)>>
  /\ Staged(Cur, last.w) = <<Num(1), Num(2)>>

\* C18, as claimed: no call on an instance changes the wrapped value or the
\* staged sequence of another instance, instances given the same array by
\* useArray included.
NothingShared ==
  [][\A b \in Live \ {last'.w} :
       /\ wrappers'[b]._context = wrappers[b]._context
       /\ arrays'[wrappers'[b]._use] = arrays[wrappers[b]._use]]_vars

\* an instance has an array of its own after construction and after a
\* consuming call that reset its staged arguments
OwnArrayWhenReset ==
  (\/ last.op = "new"
   \/ last.op \in {"tasks", "make", "map"} /\ last.done.kind = "return")
    => Sharing(wrappers[last.w]._use) = {last.w}

\* a call on one instance leaves the fields of every other instance alone,
\* and the content of its staged array too unless the two have the same array
OthersKeepTheirOwn ==
  \A b \in Live \ {last'.w} :
    /\ wrappers'[b] = wrappers[b]
    /\ wrappers[b]._use # wrappers[last'.w]._use
         => arrays'[wrappers[b]._use] = arrays[wrappers[b]._use]

\* C18, amended: no call on an instance changes which value another instance
\* wraps or which array it has staged, and an instance made by new or map,
\* or reset by a consuming call, has a staged array of its own.  But
\* useArray keeps the caller's array without copying it: while two instances
\* have been given the same array, what use on one appends to it, and what
\* a scope plugin of one does to it, shows in the staged sequence of the
\* other.
SharedOnlyThroughUseArray == [](OwnArrayWhenReset) /\ [][OthersKeepTheirOwn]_vars

SharedArrayGrows ==
  /\ last.op = "use"
  /\ last.w = 1
  /\ wrappers[1]._use = wrappers[2]._use
  /\ Staged(Cur, 2) = last.staged0 \o last.explicit

\* C19: rsh(p)(c, a1, ..., an) invokes p exactly once with c as receiver and
\* a1, ..., an as its parameters, a1 the first, a2 the second and so on, and
\* returns what p returns.
RshPassesArguments ==
  last.op = "rsh" =>
    /\ Len(last.calls) = 1
    /\ last.calls[1].plugin = last.plugins[1]
    /\ last.calls[1].this = last.value0
    /\ last.calls[1].args = last.explicit
    /\ last.done = last.calls[1].done

\* C20: lsh(f) called with receiver r and arguments a1, ..., an calls f
\* exactly once with exactly two arguments, r and the one array
\* [a1, ..., an], and returns what f returns.
LshCollectsArguments ==
  last.op = "lsh" =>
    /\ Len(last.calls) = 1
    /\ last.calls[1].plugin = last.plugins[1]
    /\ last.calls[1].args = <<last.value0, List(last.explicit)>>
    /\ last.done = last.calls[1].done

TenMinusFive ==
  /\ last.op = "lsh"
  /\ last.plugins = <<"sub">>
  /\ last.value0 = Num(10)
  /\ last.explicit = <<Num(5)>>
  /\ last.calls[1].args = <<Num(10), List(<<Num(5)>>)>>
  /\ last.done = Returned(Num(5))

\* C21: the plugin pluginize(p)(F...) called with any receiver r and any
\* arguments calls p once with receiver r and exactly F, whatever it was
\* called with, and returns what p returns.  Hence make on a wrapper with
\* staged arguments S, given pluginize(p)(F...), delivers F and never S to
\* p, returns p's result and leaves nothing staged.
PluginizeFixesArguments ==
  /\ last.op \in {"pluginize", "make", "map"} =>
       /\ Len(last.calls) = 1
       /\ last.calls[1].plugin = Closures[last.plugins[1]].plugin
       /\ last.calls[1].this = last.value0
       /\ last.calls[1].args = Closures[last.plugins[1]].fixed
  /\ last.op \in {"pluginize", "make"} => last.done = last.calls[1].done
  /\ (last.op \in {"make", "map"} /\ last.done.kind = "return")
       => Staged(Cur, last.w) = <<>>

FixedNotStaged ==
  /\ last.op = "make"
  /\ last.staged0 = <<Num(1), Num(2)>>
  /\ last.explicit = <<>>
  /\ last.plugins = <<pluginize("sub", <<Num(9), Num(8)>>)>>
  /\ last.calls[1].args = <<Num(9), Num(8)>>
  /\ last.done = Returned(Num(1))
  /\ Staged(Cur, last.w) = <<>>

Fluent == {"change", "use", "useArray", "task", "tasks"}

\* a call of change, use, useArray, task or tasks that returns, returns the
\* instance it was called on and makes no instance
ReturnsThis ==
  last'.op \in Fluent =>
    /\ Len(wrappers') = Len(wrappers)
    /\ last'.done.kind = "return" => last'.done = Returned(Self(last'.w))

\* a call made on what the call before has returned is a call on the
\* instance the chain began with
ChainStaysOnInstance ==
  (/\ last.op \in Fluent /\ last'.op \in Fluent
   /\ last.done.kind = "return" /\ last'.done.kind = "return"
   /\ last'.w = last.done.value[2])
    => last'.done = Returned(Self(last.w))

\* C22: use, useArray, task and tasks, like change, return the very instance
\* they were called on, so that a chain of these calls ends on the instance
\* it began with and makes no other instance.
FluentChaining == [][ReturnsThis /\ ChainStaysOnInstance]_vars

ChainOnSecondInstance ==
  /\ last.op = "tasks"
  /\ last.w = 2
  /\ last.plugins = <<"testIt">>
  /\ last.staged0 = <<Num(2), Num(1)>>
  /\ last.done = Returned(Self(2))
  /\ Len(wrappers) = 2

\* make and map called on instance w of the present state with plugin p and
\* explicit arguments: the same invocations, the same outcome, and the same
\* instance w left behind
SameInvocation(w, p, explicit) ==
  LET A == make(Cur, w, p, explicit)
      B == map(Cur, w, p, explicit)
  IN /\ A.calls = B.calls
     /\ A.done.kind = B.done.kind
     /\ A.done.kind = "throw" => B.done = A.done
     /\ A.done.kind = "return" =>
          /\ B.done.value[1] = "Context"
          /\ B.wrappers[B.done.value[2]]._context = A.done.value
          /\ Staged(A, w) = <<>>
          /\ A.wrappers[w]._context = wrappers[w]._context
     /\ A.wrappers[w]._context = B.wrappers[w]._context
     /\ Staged(A, w) = Staged(B, w)

\* C23: map and make are the same invocation: from every state of a wrapper,
\* with the same plugin and the same explicit arguments, the instance map
\* returns wraps the value make returns, the plugin is given the same
\* receiver and arguments, and both leave the wrapper with its value and
\* with nothing staged.
MapIsMake ==
  \A w \in Live, p \in Plugins, explicit \in Explicits :
    SameInvocation(w, p, explicit)

MappedWhatMakeReturns ==
  /\ last.op = "map"
  /\ last.plugins = <<"increment">>
  /\ last.staged0 = <<Num(1), Num(2)>>
  /\ last.explicit = <<Num(9)>>
  /\ last.made = <<[_context |-> Num(11), staged |-> <<>>]>>
  /\ make(Cur, last.w, "increment", <<Num(9)>>).done = Returned(Num(11))

\* what a plugin that calls back does to the wrapped value and the staged
\* arguments of the instance, s being the two before it runs
Effect(p, s) ==
  CASE p = "reChange" -> [s EXCEPT !.value = Num(20)]
    [] p = "reUseRaise" -> [value |-> Num(20), staged |-> s.staged \o <<Num(7)>>]
    [] p = "reUse" -> [s EXCEPT !.staged = @ \o <<Num(7)>>]
    [] p = "reUseArray" -> [s EXCEPT !.staged = <<Num(7)>>]
    [] p \in {"reMake", "reMap"} -> [s EXCEPT !.staged = <<>>]
    [] OTHER -> s

\* the value and the staged arguments when the k-th plugin of a batch starts
RECURSIVE Before(_, _, _)
Before(plugins, k, s) ==
  IF k = 1 THEN s ELSE Effect(plugins[k - 1], Before(plugins, k - 1, s))

\* the invocations a method has made itself, those a plugin has made aside
Top(calls) == SelectSeq(calls, LAMBDA c : c.plugin # "increment")

\* C24: tasks reads the receiver and the argument list afresh for each
\* plugin: when plugin k calls change, use, useArray, make or map on the
\* instance, plugin k+1 is invoked with the wrapped value and the staged
\* arguments as plugin k has left them, not as they were when tasks was
\* called.
TasksReadAfresh ==
  last.op = "tasks" =>
    LET top == Top(last.calls)
        s0 == [value |-> last.value0, staged |-> last.staged0]
    IN /\ Len(top) <= Len(last.plugins)
       /\ \A k \in 1..Len(top) :
            /\ top[k].plugin = last.plugins[k]
            /\ top[k].this = Before(last.plugins, k, s0).value
            /\ top[k].args = Before(last.plugins, k, s0).staged

SecondPluginSeesChange ==
  /\ last.op = "tasks"
  /\ last.plugins = <<"reChange", "reUse">>
  /\ last.value0 = Num(10)
  /\ last.staged0 = <<Num(1)>>
  /\ last.calls[2].this = Num(20)
  /\ last.calls[2].args = <<Num(1)>>

\* C25: make and map resolve the argument list before they invoke the plugin
\* and reset the staged sequence after it has returned: what the plugin
\* itself stages on the instance during the call, by use or useArray, is
\* gone when make or map returns, while a change the plugin makes persists.
StagedInsideIsDropped ==
  (last.op \in {"make", "map"} /\ last.done.kind = "return") =>
    LET top == Top(last.calls)
        s0 == [value |-> last.value0, staged |-> last.staged0]
    IN /\ Len(top) = 1
       /\ top[1].args = last.staged0
       /\ top[1].this = last.value0
       /\ Staged(Cur, last.w) = <<>>
       /\ wrappers[last.w]._context = Effect(last.plugins[1], s0).value

PluginStagedInVain ==
  /\ last.op = "make"
  /\ last.plugins = <<"reUse">>
  /\ last.staged0 = <<Num(1)>>
  /\ last.calls[1].args = <<Num(1)>>
  /\ last.done = Returned(Undefined)
  /\ Staged(Cur, last.w) = <<>>

\* one call and the array s the caller holds: useArray(s) makes s itself the
\* staged array, use on the instance that has s staged appends to s, and a
\* reset by tasks, make or map gives the instance another, empty array and
\* leaves s with its elements; so does a reset after scope has handed the
\* staged array to its plugin
CallerKeepsItsArray ==
  /\ last'.op = "useArray" =>
       /\ held' # 0
       /\ wrappers'[last'.w]._use = held'
       /\ arrays'[held'] = last'.explicit
  /\ (last'.op = "use" /\ held # 0 /\ wrappers[last'.w]._use = held) =>
       /\ held' = held
       /\ wrappers'[last'.w]._use = held
       /\ arrays'[held] = arrays[held] \o last'.explicit
  /\ last'.op = "scope" =>
       /\ held' = wrappers[last'.w]._use
       /\ wrappers'[last'.w]._use = held'
       /\ arrays'[held'] = last'.staged0
  /\ (last'.op \in {"tasks", "make", "map"} /\ last'.done.kind = "return"
        /\ held # 0) =>
       /\ held' = held
       /\ arrays'[held] = arrays[held]
       /\ wrappers'[last'.w]._use # held
       /\ arrays'[wrappers'[last'.w]._use] = <<>>

\* C26: after useArray(s) the wrapper holds s itself, so a following use(x)
\* appends x to the caller's array s; the reset by tasks, make and map
\* rebinds the wrapper to a new empty array and never removes an element
\* from s, and an array handed to a scope plugin before a reset keeps its
\* elements likewise.
UseArrayAliases == [][CallerKeepsItsArray]_vars

CallerArrayOutlivesReset ==
  /\ last.op = "make"
  /\ last.done.kind = "return"
  /\ held # 0
  /\ last.use0 = held
  /\ last.staged0 = <<Num(2), Num(1)>>
  /\ arrays[held] = <<Num(2), Num(1)>>
  /\ Staged(Cur, last.w) = <<>>

\* a make, map or task whose plugin has raised leaves the instance as the
\* plugin left it: the staged arguments are not reset, the value is not
\* replaced, and map has made no instance
FailedCallKeepsState ==
  (last.op \in {"make", "map", "task"} /\ last.done.kind = "throw") =>
    LET s0 == [value |-> last.value0, staged |-> last.staged0]
        s1 == Effect(last.plugins[1], s0)
    IN /\ Staged(Cur, last.w) = s1.staged
       /\ wrappers[last.w]._context = s1.value
       /\ wrappers[last.w]._use = last.use0
       /\ last.made = <<>>
       /\ Len(wrappers) = 1

\* the make that follows the failed call, given no explicit arguments,
\* invokes its plugin with the arguments the failed call has left staged
NextMakeDeliversStaged ==
  (last.op \in {"make", "map", "task"} /\ last.done.kind = "throw"
     /\ last'.op = "make" /\ last'.explicit = <<>>) =>
    /\ Len(last'.calls) >= 1
    /\ last'.calls[1].args = Staged(Cur, last.w)
    /\ last'.calls[1].this = wrappers[last.w]._context

\* C27: when the plugin of make, map or task raises, the wrapper has changed
\* nothing: the staged sequence is not cleared and the wrapped value is not
\* replaced (both are as the plugin left them), map yields no new wrapper,
\* and a following make without explicit arguments delivers the still-staged
\* arguments.
FailedCallChangesNothing ==
  [](FailedCallKeepsState) /\ [][NextMakeDeliversStaged]_vars

FailedMakeStillStaged ==
  /\ last.op = "make"
  /\ last.plugins = <<"reUseRaise">>
  /\ last.done = Thrown(ErrorE)
  /\ last.staged0 = <<Num(1)>>
  /\ Staged(Cur, last.w) = <<Num(1), Num(7)>>
  /\ wrappers[last.w]._context = Num(20)

\* C28: rsh(lsh(f))(c, a1, ..., an) calls f exactly once with c as first
\* argument and, as second argument, a one-element sequence whose only
\* element is the sequence [a1, ..., an]; lsh(rsh(p)) invoked with receiver
\* r and arguments a1, ..., an calls p with receiver r and that same nested
\* one-element sequence as its single argument.
ComposedShiftsNest ==
  /\ last.op = "rsh(lsh)" =>
       /\ Len(last.calls) = 1
       /\ last.calls[1].plugin = last.plugins[1]
       /\ last.calls[1].args = <<last.value0, List(<<List(last.explicit)>>)>>
       /\ last.done = last.calls[1].done
  /\ last.op = "lsh(rsh)" =>
       /\ Len(last.calls) = 1
       /\ last.calls[1].plugin = last.plugins[1]
       /\ last.calls[1].this = last.value0
       /\ last.calls[1].args = <<List(<<List(last.explicit)>>)>>
       /\ last.done = last.calls[1].done

NestedTwice ==
  /\ last.op = "rsh(lsh)"
  /\ last.plugins = <<"sub">>
  /\ last.value0 = Num(10)
  /\ last.explicit = <<Num(5), Num(2)>>
  /\ last.calls[1].args = <<Num(10), List(<<List(<<Num(5), Num(2)>>)>>)>>

====
